---- MODULE Spec2Model ----
(***************************************************************************)
(* Model of backend/transcribe_daemon.py: the start-up sequence of main()  *)
(* (cache probe, download, model load) and its command loop over stdin.    *)
(* Strings are sequences of one-character strings so that str.strip(),     *)
(* the comparison with "QUIT" and str.replace("/", "--") are computed as   *)
(* the code computes them.                                                 *)
(***************************************************************************)
EXTENDS Integers, Sequences, FiniteSets, TLC

\* ------------------------------------------------------------------ bounds
\* Largest number of lines the host writes to the daemon's stdin.
MaxLines == 3

\* The event log keeps the first MaxLog events.  A run that reads its input
\* emits at most 7 start-up events, 2 events per line and the shutdown
\* status, so only a run that spins on a broken stdin fills the log.
MaxLog == 2 * MaxLines + 10

\* ------------------------------------------------------------ text helpers
\* Python's None, for the local `model` before from_pretrained has returned
None == <<>>

Whitespace == {" ", "\n", "\t"}

RECURSIVE lstrip(_)
lstrip(s) ==
    IF s = <<>> THEN <<>>
    ELSE IF Head(s) \in Whitespace THEN lstrip(Tail(s)) ELSE s

RECURSIVE rstrip(_)
rstrip(s) ==
    IF s = <<>> THEN <<>>
    ELSE IF s[Len(s)] \in Whitespace THEN rstrip(SubSeq(s, 1, Len(s) - 1)) ELSE s

\* strip() that removes the newline only, as rstrip("\n") would
stripNewlineOnly(s) ==
    IF s # <<>> /\ s[Len(s)] = "\n" THEN SubSeq(s, 1, Len(s) - 1) ELSE s

\* str.strip() of line 120
strip(s) == rstrip(lstrip(s))

\* the literal "QUIT" of line 124
QUIT == <<"Q", "U", "I", "T">>

\* the test of line 124: audio_path == "QUIT"
IsQuit(audio_path) == audio_path = QUIT

\* MODEL_NAME of line 64, the only model main() ever loads
MODEL_NAME == <<"Q", "w", "e", "n", "/", "Q", "w", "e", "n", "3">>

\* ------------------------------------------------------- the input alphabet
\* Raw lines as sys.stdin.readline() returns them (newline included).
LineBlank  == <<"\n">>
LineSpaces == <<" ", "\n">>
LineQUIT   == <<"Q", "U", "I", "T", "\n">>
LineQuitLc == <<"q", "u", "i", "t", "\n">>
LineLoadA  == <<"L", "O", "A", "D", "_", "M", "O", "D", "E", "L", ":", "a", "\n">>
LineCheckA == <<"C", "H", "E", "C", "K", "_", "M", "O", "D", "E", "L", ":", "a", "\n">>
LineFileOk == <<"o", "k", "\n">>
LineFileNo == <<"n", "o", "\n">>

Lines == {LineBlank, LineSpaces, LineQUIT, LineQuitLc, LineLoadA, LineCheckA,
          LineFileOk, LineFileNo}

\* The audio files that exist on disk; every other path names no file.
ExistingFiles == {<<"o", "k">>}

RECURSIVE SeqsUpTo(_, _)
SeqsUpTo(S, n) ==
    IF n = 0 THEN {<<>>}
    ELSE LET shorter == SeqsUpTo(S, n - 1)
         IN  shorter \cup {Append(q, x) : q \in {r \in shorter : Len(r) = n - 1}, x \in S}

\* ------------------------------------------------------------- cache probe
\* model_name.replace("/", "--") of lines 30, 46 and 71
RECURSIVE cache_key(_)
cache_key(model_name) ==
    IF model_name = <<>> THEN <<>>
    ELSE IF Head(model_name) = "/" THEN <<"-", "-">> \o cache_key(Tail(model_name))
    ELSE <<Head(model_name)>> \o cache_key(Tail(model_name))

\* check_model_exists (lines 28-37): the directory of the key exists and
\* holds a file with "safetensors" in its name
check_model_exists(cache, model_name) == cache_key(model_name) \in cache

\* Longest identifier of the cache-key study.
MaxIdLen == 4

IdChars == {"a", "/", "-"}

Identifiers == SeqsUpTo(IdChars, MaxIdLen) \ {<<>>}

\* ------------------------------------------------------------------- state
VARIABLES
    pc,          \* position of main(): start, download, load, loop, transcribing, except, shutdown, exited
    events,      \* the JSON messages printed so far, oldest first
    model,       \* the local `model` of main(): None or the loaded handle
    loaded,      \* the identifiers from_pretrained has returned a handle for
    input,       \* the lines the host writes to stdin
    pos,         \* number of lines readline() has returned
    audio_path,  \* the local `audio_path` of the loop
    calls,       \* the line numbers for which model.transcribe was invoked
    model_exists,\* result of check_model_exists (line 70), False before the probe
    disk,        \* the directories of the cache that hold a *safetensors* file
    ident,       \* a pair of model identifiers, for the study of the cache key
    stdinOk,     \* FALSE when sys.stdin cannot be read (closed descriptor: sys.stdin is None)
    stopReason,  \* which break left the loop: none, eof, quit, interrupt
    exitCode     \* exit status of the process: "running", "0" or "1"

vars == <<pc, events, model, loaded, input, pos, audio_path, calls,
          model_exists, disk, ident, stdinOk, stopReason, exitCode>>

\* send_message (lines 11-14): one record appended to stdout.  `model` is
\* the model= keyword of the message, <<>> when the call passes none.
Msg(type, state, line) ==
    [type |-> type, state |-> state, line |-> line, model |-> <<>>]

\* a message sent with model=identifier (line 44)
MsgModel(type, identifier, line) ==
    [type |-> type, state |-> "", line |-> line, model |-> identifier]

send_message(log, m) == IF Len(log) < MaxLog THEN Append(log, m) ELSE log

RECURSIVE send_all(_, _)
send_all(log, ms) ==
    IF ms = <<>> THEN log ELSE send_all(send_message(log, Head(ms)), Tail(ms))

\* the object Qwen3ASRModel.from_pretrained returns (lines 101-105), tagged
\* with the identifier it was loaded from
Handle(identifier) == <<"Qwen3ASRModel", identifier>>

Init ==
    /\ pc = "start"
    /\ events = <<>>
    /\ model = None
    /\ loaded = <<>>
    /\ stdinOk \in BOOLEAN
    /\ input \in IF stdinOk THEN SeqsUpTo(Lines, MaxLines) ELSE {<<>>}
    /\ pos = 0
    /\ audio_path = <<>>
    /\ calls = {}
    /\ model_exists = FALSE
    /\ disk \in {{}, {cache_key(MODEL_NAME)}}
    /\ ident = <<MODEL_NAME, MODEL_NAME>>
    /\ stopReason = "none"
    /\ exitCode = "running"

\* ----------------------------------------------------------------- start-up
\* line 62: `import torch` raises; the traceback ends the process with
\* status 1 before any message is printed.
StartupCrash ==
    /\ pc = "start"
    /\ pc' = "exited"
    /\ exitCode' = "1"
    /\ UNCHANGED <<events, model, loaded, input, pos, audio_path, calls,
                   model_exists, disk, ident, stdinOk, stopReason>>

\* lines 62-80: initializing status, cache probe, downloading or cached status
Start ==
    /\ pc = "start"
    /\ model_exists' = check_model_exists(disk, MODEL_NAME)
    /\ events' = send_all(events,
                   <<Msg("status", "initializing", 0),
                     IF model_exists' THEN Msg("status", "cached", 0)
                                      ELSE Msg("status", "downloading", 0)>>)
    /\ pc' = IF model_exists' THEN "load" ELSE "download"
    /\ UNCHANGED <<model, loaded, input, pos, audio_path, calls,
                   disk, ident, stdinOk, stopReason, exitCode>>

\* lines 39-56 and 75-76: snapshot_download fills the directory of the key
\* and returns
DownloadOk ==
    /\ pc = "download"
    /\ disk' = disk \cup {cache_key(MODEL_NAME)}
    /\ events' = send_all(events,
                   <<MsgModel("download_start", MODEL_NAME, 0),
                     Msg("download_complete", "", 0)>>)
    /\ pc' = "load"
    /\ UNCHANGED <<model, loaded, input, pos, audio_path, calls,
                   model_exists, ident, stdinOk, stopReason, exitCode>>

\* DownloadFail without the test of line 76: main() goes on to the load
DownloadFailContinues ==
    /\ pc = "download"
    /\ events' = send_all(events,
                   <<MsgModel("download_start", MODEL_NAME, 0),
                     Msg("download_error", "", 0)>>)
    /\ pc' = "load"
    /\ UNCHANGED <<model, loaded, input, pos, audio_path, calls,
                   model_exists, disk, ident, stdinOk, stopReason, exitCode>>

\* lines 57-59 and 76-78: snapshot_download raises, download_model returns
\* None, main() prints fatal and returns
DownloadFail ==
    /\ pc = "download"
    /\ events' = send_all(events,
                   <<MsgModel("download_start", MODEL_NAME, 0), Msg("download_error", "", 0),
                     Msg("fatal", "download", 0)>>)
    /\ pc' = "exited"
    /\ exitCode' = "0"
    /\ UNCHANGED <<model, loaded, input, pos, audio_path, calls,
                   model_exists, disk, ident, stdinOk, stopReason>>

\* LoadOk with the send_message("ready") of line 107 left out
LoadOkWithoutReady ==
    /\ pc = "load"
    /\ events' = send_all(events,
                   <<Msg("status", "loading", 0), Msg("status", "loading", 0)>>)
    /\ model' = Handle(MODEL_NAME)
    /\ loaded' = Append(loaded, MODEL_NAME)
    /\ pc' = "loop"
    /\ UNCHANGED <<input, pos, audio_path, calls, model_exists, disk, ident, stdinOk,
                   stopReason, exitCode>>

\* lines 83-107: the try block runs to its end
LoadOk ==
    /\ pc = "load"
    /\ events' = send_all(events,
                   <<Msg("status", "loading", 0), Msg("status", "loading", 0),
                     Msg("ready", "", 0)>>)
    /\ model' = Handle(MODEL_NAME)
    /\ loaded' = Append(loaded, MODEL_NAME)
    /\ pc' = "loop"
    /\ UNCHANGED <<input, pos, audio_path, calls, model_exists, disk, ident, stdinOk,
                   stopReason, exitCode>>

\* LoadFail where `model` was bound before the exception was raised
LoadFailKeepsHandle ==
    /\ pc = "load"
    /\ events' = send_all(events,
                   <<Msg("status", "loading", 0), Msg("status", "loading", 0),
                     Msg("fatal", "load", 0)>>)
    /\ model' = Handle(MODEL_NAME)
    /\ pc' = "exited"
    /\ exitCode' = "0"
    /\ UNCHANGED <<loaded, input, pos, audio_path, calls,
                   model_exists, disk, ident, stdinOk, stopReason>>

\* lines 83-111: the import of line 86 raises (before the second loading
\* status) or from_pretrained raises (after it); main() prints fatal and returns
LoadFail ==
    /\ pc = "load"
    /\ \E early \in BOOLEAN :
          events' = send_all(events,
                      IF early
                      THEN <<Msg("status", "loading", 0), Msg("fatal", "load", 0)>>
                      ELSE <<Msg("status", "loading", 0), Msg("status", "loading", 0),
                             Msg("fatal", "load", 0)>>)
    /\ pc' = "exited"
    /\ exitCode' = "0"
    /\ UNCHANGED <<model, loaded, input, pos, audio_path, calls,
                   model_exists, disk, ident, stdinOk, stopReason>>

\* ------------------------------------------------------------- command loop
\* lines 116-118: readline() returns "" at end of input
ReadEOF ==
    /\ pc = "loop"
    /\ stdinOk
    /\ pos = Len(input)
    /\ pc' = "shutdown"
    /\ stopReason' = "eof"
    /\ UNCHANGED <<events, model, loaded, input, pos, audio_path, calls,
                   model_exists, disk, ident, stdinOk, exitCode>>

\* lines 116-122: a line that strips to the empty string
ReadBlank ==
    /\ pc = "loop"
    /\ stdinOk
    /\ pos < Len(input)
    /\ strip(input[pos + 1]) = <<>>
    /\ pos' = pos + 1
    /\ audio_path' = strip(input[pos + 1])
    /\ UNCHANGED <<pc, events, model, loaded, input, calls,
                   model_exists, disk, ident, stdinOk, stopReason, exitCode>>

\* ReadQuit that also acts on a QUIT queued behind a running transcription
ReadQuitPreempts ==
    /\ pc \in {"loop", "transcribing"}
    /\ stdinOk
    /\ pos < Len(input)
    /\ strip(input[pos + 1]) # <<>>
    /\ IsQuit(strip(input[pos + 1]))
    /\ pos' = pos + 1
    /\ audio_path' = strip(input[pos + 1])
    /\ pc' = "shutdown"
    /\ stopReason' = "quit"
    /\ UNCHANGED <<events, model, loaded, input, calls,
                   model_exists, disk, ident, stdinOk, exitCode>>

\* lines 116-125: the quit sentinel
ReadQuit ==
    /\ pc = "loop"
    /\ stdinOk
    /\ pos < Len(input)
    /\ strip(input[pos + 1]) # <<>>
    /\ IsQuit(strip(input[pos + 1]))
    /\ pos' = pos + 1
    /\ audio_path' = strip(input[pos + 1])
    /\ pc' = "shutdown"
    /\ stopReason' = "quit"
    /\ UNCHANGED <<events, model, loaded, input, calls,
                   model_exists, disk, ident, stdinOk, exitCode>>

\* StartTranscribe with the send_message of line 127 left out
StartTranscribeSilent ==
    /\ pc = "loop"
    /\ stdinOk
    /\ pos < Len(input)
    /\ strip(input[pos + 1]) # <<>>
    /\ ~IsQuit(strip(input[pos + 1]))
    /\ pos' = pos + 1
    /\ audio_path' = strip(input[pos + 1])
    /\ calls' = calls \cup {pos + 1}
    /\ pc' = "transcribing"
    /\ UNCHANGED <<events, model, loaded, input, model_exists, disk, ident, stdinOk,
                   stopReason, exitCode>>

\* lines 116-130: any other line: transcribing status, then model.transcribe
\* is entered with the stripped line
StartTranscribe ==
    /\ pc = "loop"
    /\ stdinOk
    /\ pos < Len(input)
    /\ strip(input[pos + 1]) # <<>>
    /\ ~IsQuit(strip(input[pos + 1]))
    /\ pos' = pos + 1
    /\ audio_path' = strip(input[pos + 1])
    /\ events' = send_message(events, Msg("status", "transcribing", pos + 1))
    /\ calls' = calls \cup {pos + 1}
    /\ pc' = "transcribing"
    /\ UNCHANGED <<model, loaded, input, model_exists, disk, ident, stdinOk,
                   stopReason, exitCode>>

\* TranscribeOk that releases the model after the transcription
TranscribeOkReleasesModel ==
    /\ pc = "transcribing"
    /\ \E language \in {"result", "none"} :
          events' = send_message(events, Msg("transcription", language, pos))
    /\ model' = None
    /\ pc' = "loop"
    /\ UNCHANGED <<loaded, input, pos, audio_path, calls,
                   model_exists, disk, ident, stdinOk, stopReason, exitCode>>

\* lines 130-138: model.transcribe returns (a result list or an empty one)
TranscribeOk ==
    /\ pc = "transcribing"
    /\ \E language \in {"result", "none"} :
          events' = send_message(events, Msg("transcription", language, pos))
    /\ pc' = "loop"
    /\ UNCHANGED <<model, loaded, input, pos, audio_path, calls,
                   model_exists, disk, ident, stdinOk, stopReason, exitCode>>

\* TranscribeFail whose except clause leaves the loop
TranscribeFailBreaks ==
    /\ pc = "transcribing"
    /\ events' = send_message(events, Msg("error", "transcription", pos))
    /\ pc' = "shutdown"
    /\ UNCHANGED <<model, loaded, input, pos, audio_path, calls,
                   model_exists, disk, ident, stdinOk, stopReason, exitCode>>

\* lines 140-141: model.transcribe raises
TranscribeFail ==
    /\ pc = "transcribing"
    /\ events' = send_message(events, Msg("error", "transcription", pos))
    /\ pc' = "loop"
    /\ UNCHANGED <<model, loaded, input, pos, audio_path, calls,
                   model_exists, disk, ident, stdinOk, stopReason, exitCode>>

\* lines 116 and 145: readline() raises and control enters the handler of
\* `except Exception`
ReadRaise ==
    /\ pc = "loop"
    /\ ~stdinOk
    /\ pc' = "except"
    /\ UNCHANGED <<events, model, loaded, input, pos, audio_path, calls,
                   model_exists, disk, ident, stdinOk, stopReason, exitCode>>

\* line 146: the handler prints the error and the loop goes round again
ReadError ==
    /\ pc = "except"
    /\ events' = send_message(events, Msg("error", "unexpected", 0))
    /\ pc' = "loop"
    /\ UNCHANGED <<model, loaded, input, pos, audio_path, calls,
                   model_exists, disk, ident, stdinOk, stopReason, exitCode>>

\* Interrupt that leaves main() at once, without the message of line 148
InterruptExits ==
    /\ pc \in {"loop", "transcribing"}
    /\ pc' = "exited"
    /\ stopReason' = "interrupt"
    /\ exitCode' = "0"
    /\ UNCHANGED <<events, model, loaded, input, pos, audio_path, calls,
                   model_exists, disk, ident, stdinOk>>

\* lines 143-144: KeyboardInterrupt inside the try of the loop
Interrupt ==
    /\ pc \in {"loop", "transcribing"}
    /\ pc' = "shutdown"
    /\ stopReason' = "interrupt"
    /\ UNCHANGED <<events, model, loaded, input, pos, audio_path, calls,
                   model_exists, disk, ident, stdinOk, exitCode>>

\* line 148 and the return of main(): shutdown status, exit status 0
Shutdown ==
    /\ pc = "shutdown"
    /\ events' = send_message(events, Msg("status", "shutdown", 0))
    /\ pc' = "exited"
    /\ exitCode' = "0"
    /\ UNCHANGED <<model, loaded, input, pos, audio_path, calls,
                   model_exists, disk, ident, stdinOk, stopReason>>

Next ==
    \/ StartupCrash
    \/ Start
    \/ DownloadOk
    \/ DownloadFail
    \/ LoadOk
    \/ LoadFail
    \/ ReadEOF
    \/ ReadBlank
    \/ ReadQuit
    \/ StartTranscribe
    \/ TranscribeOk
    \/ TranscribeFail
    \/ ReadRaise
    \/ ReadError
    \/ Interrupt
    \/ Shutdown

Spec == Init /\ [][Next]_vars

\* The steps the interpreter takes by itself; a KeyboardInterrupt is a signal
\* from outside that may never come.
Program ==
    \/ StartupCrash
    \/ Start
    \/ DownloadOk
    \/ DownloadFail
    \/ LoadOk
    \/ LoadFail
    \/ ReadEOF
    \/ ReadBlank
    \/ ReadQuit
    \/ StartTranscribe
    \/ TranscribeOk
    \/ TranscribeFail
    \/ ReadRaise
    \/ ReadError
    \/ Shutdown

\* The interpreter keeps executing main() while a step is possible.
FairSpec == Init /\ [][Next]_vars /\ WF_vars(Program)

\* ------------------------------------------------- the cache key by itself
\* check_model_exists and the local_dir of download_model take any
\* identifier: one identifier is downloaded into an empty cache, then the
\* cache is probed for the other.
KeyInit ==
    /\ pc = "start"
    /\ events = <<>>
    /\ model = None
    /\ loaded = <<>>
    /\ stdinOk = FALSE
    /\ input = <<>>
    /\ pos = 0
    /\ audio_path = <<>>
    /\ calls = {}
    /\ model_exists = FALSE
    /\ disk = {}
    /\ ident \in Identifiers \X Identifiers
    /\ stopReason = "none"
    /\ exitCode = "running"

\* lines 46-54: snapshot_download writes into cache_dir / key of ident[1]
KeyDownload ==
    /\ disk = {}
    /\ disk' = {cache_key(ident[1])}
    /\ UNCHANGED <<pc, events, model, loaded, input, pos, audio_path, calls,
                   model_exists, ident, stdinOk, stopReason, exitCode>>

\* lines 28-37: check_model_exists(cache_dir, ident[2])
KeyProbe ==
    /\ disk # {}
    /\ model_exists' = check_model_exists(disk, ident[2])
    /\ UNCHANGED <<pc, events, model, loaded, input, pos, audio_path, calls,
                   disk, ident, stdinOk, stopReason, exitCode>>

KeyNext ==
    \/ KeyDownload
    \/ KeyProbe

KeySpec == KeyInit /\ [][KeyNext]_vars

TypeOK ==
    /\ pc \in {"start", "download", "load", "loop", "transcribing", "except",
              "shutdown", "exited"}
    /\ model \in {None, Handle(MODEL_NAME)}
    /\ pos \in 0..Len(input)
    /\ Len(events) <= MaxLog
    /\ calls \subseteq 1..MaxLines
    /\ exitCode \in {"running", "0", "1"}
    /\ stopReason \in {"none", "eof", "quit", "interrupt"}
    /\ model_exists \in BOOLEAN
    /\ Cardinality(disk) <= 1

\* ------------------------------------------------- vocabulary of the claims
EventsFor(k) == SelectSeq(events, LAMBDA e : e.line = k)

HasEvent(type) == \E i \in 1..Len(events) : events[i].type = type

HasStatus(state) ==
    \E i \in 1..Len(events) : events[i].type = "status" /\ events[i].state = state

Count(log, type) == Len(SelectSeq(log, LAMBDA e : e.type = type))

\* the events a step has printed
NewEvents == SubSeq(events', Len(events) + 1, Len(events'))

\* The lifecycle status the daemon has reported on stdout.
lifecycleStatus ==
    IF HasEvent("fatal") THEN "Failed"
    ELSE IF HasEvent("ready") THEN "Ready"
    ELSE IF HasStatus("loading") THEN "Loading"
    ELSE IF HasStatus("downloading") THEN "Downloading"
    ELSE "Unloaded"

UpperChar(c) ==
    CASE c = "q" -> "Q" [] c = "u" -> "U" [] c = "i" -> "I" [] c = "t" -> "T"
      [] OTHER -> c

Upper(s) == [i \in 1..Len(s) |-> UpperChar(s[i])]

\* the quit sentinel in any letter case
IsQuitAnyCase(cmd) == Upper(cmd) = QUIT

HasPrefix(s, p) == Len(s) >= Len(p) /\ SubSeq(s, 1, Len(p)) = p

LOAD_PREFIX == <<"L", "O", "A", "D", "_", "M", "O", "D", "E", "L", ":">>

CHECK_PREFIX == <<"C", "H", "E", "C", "K", "_", "M", "O", "D", "E", "L", ":">>

IsLoadCmd(cmd) == HasPrefix(cmd, LOAD_PREFIX)

IsCheckCmd(cmd) == HasPrefix(cmd, CHECK_PREFIX)

\* line k has been read and the loop is done with it
Handled(k) == k < pos \/ (k = pos /\ pc # "transcribing")

\* line k is a plain path that names no existing file
NamesMissingFile(k) ==
    LET p == strip(input[k])
    IN  /\ p # <<>>
        /\ ~IsQuitAnyCase(p)
        /\ ~IsLoadCmd(p)
        /\ ~IsCheckCmd(p)
        /\ p \notin ExistingFiles

\* ------------------------------------------------------------------- claims
\* C1: once a QUIT line in any letter case has been read, no later input
\* line is processed: no later line is read and no event is printed for one.
C1_QuitAnyCaseStopsProcessing ==
    \A j \in 1..pos :
        IsQuitAnyCase(strip(input[j])) =>
            /\ pos = j
            /\ \A k \in (j + 1)..Len(input) : EventsFor(k) = <<>>

\* C2: a line naming a file that does not exist gets exactly one error
\* event, no transcribing status, and model.transcribe is not invoked for it.
C2_MissingFileFailsFast ==
    \A k \in 1..pos :
        NamesMissingFile(k) =>
            /\ k \notin calls
            /\ \A i \in 1..Len(events) :
                  events[i].line = k =>
                      ~(events[i].type = "status" /\ events[i].state = "transcribing")
            /\ Handled(k) => Count(EventsFor(k), "error") = 1

\* C3: when LOAD_MODEL:<X> succeeded and the next line is LOAD_MODEL:<X>
\* again, the second line prints no event and leaves the model unchanged,
\* and the run holds exactly one ready event.
C3_RepeatedLoadIsSilent ==
    \A k \in 2..pos :
        ( /\ IsLoadCmd(strip(input[k - 1]))
          /\ strip(input[k]) = strip(input[k - 1])
          /\ Count(EventsFor(k - 1), "error") = 0 ) =>
            /\ EventsFor(k) = <<>>
            /\ Count(events, "ready") = 1
            /\ model = Handle(MODEL_NAME)

C5_HandleIffReady ==
    /\ (model # None) <=> (lifecycleStatus = "Ready")
    /\ model # None => model = Handle(MODEL_NAME)
    /\ Len(loaded) <= 1

\* Ready with a handle, after a line has been transcribed
C5_Witness ==
    /\ model # None
    /\ lifecycleStatus = "Ready"
    /\ HasEvent("transcription")

\* the step handles a CHECK_MODEL line: it reads it, or it runs on it
HandlingCheck ==
    \/ /\ pc = "loop"
       /\ pos < Len(input)
       /\ pos' = pos + 1
       /\ IsCheckCmd(strip(input[pos + 1]))
    \/ /\ pc = "transcribing"
       /\ IsCheckCmd(audio_path)

\* C6: handling a CHECK_MODEL line leaves the handle, the loaded identifier
\* and the lifecycle status unchanged and starts no download and no load.
C6_CheckModelLeavesModelState ==
    [][ HandlingCheck =>
          /\ model' = model
          /\ loaded' = loaded
          /\ lifecycleStatus' = lifecycleStatus
          /\ \A i \in 1..Len(NewEvents) :
                /\ NewEvents[i].type \notin {"download_start", "download_complete",
                                             "download_error", "ready", "fatal"}
                /\ NewEvents[i].state \notin {"downloading", "loading"} ]_vars

\* two CHECK_MODEL lines have been handled with the handle in place
C6_Witness ==
    /\ \E j, k \in 1..pos :
          /\ j < k
          /\ IsCheckCmd(strip(input[j]))
          /\ IsCheckCmd(strip(input[k]))
          /\ Handled(k)
    /\ model = Handle(MODEL_NAME)

\* the step leaves model.transcribe through its except clause: it is not a
\* KeyboardInterrupt and it prints no transcription
TranscribeRaised ==
    /\ pc = "transcribing"
    /\ pc' # "transcribing"
    /\ stopReason' # "interrupt"
    /\ \A i \in 1..Len(NewEvents) : NewEvents[i].type # "transcription"

\* C7: when model.transcribe fails, one error event is printed for the
\* line, the handle is kept, and the loop is back at readline() with
\* nothing of the input lost.
C7_TranscribeFailureKeepsRunning ==
    [][ TranscribeRaised =>
          /\ NewEvents = <<Msg("error", "transcription", pos)>>
          /\ model' = model
          /\ model' # None
          /\ pc' = "loop"
          /\ stopReason' = "none"
          /\ pos' = pos
          /\ exitCode' = "running" ]_vars

\* a line failed in model.transcribe and the line after it was transcribed
C7_Witness ==
    \E k \in 1..(pos - 1) :
        /\ Count(EventsFor(k), "error") = 1
        /\ Count(EventsFor(k + 1), "transcription") = 1
        /\ model = Handle(MODEL_NAME)

\* a download or a load has failed
DownloadOrLoadFailed == HasEvent("download_error") \/ HasEvent("fatal")

\* C8: after a download or load failure an error event has been printed,
\* no handle is held, and the daemon is still running its command loop.
C8_LoadFailureIsRecoverable ==
    DownloadOrLoadFailed =>
        /\ HasEvent("error")
        /\ model = None
        /\ loaded = <<>>
        /\ pc \in {"loop", "transcribing"}
        /\ exitCode = "running"

\* C9: a fatal event ends the process with a failure status before any
\* line is read; a stop on QUIT or end of input ends it with status 0.
C9_ExitStatus ==
    /\ HasEvent("fatal") => (pc = "exited" /\ pos = 0 /\ exitCode = "1")
    /\ (pc = "exited" /\ stopReason \in {"quit", "eof"}) => exitCode = "0"

\* C10: once the command loop runs, the daemon reaches its stopped state
\* and returns, whatever the lines and the outcomes of reading them.
C10_LoopTerminates == (pc = "loop") ~> (pc = "exited")

\* the events of the log that belong to an input line, oldest first
LineEvents == SelectSeq(events, LAMBDA e : e.line > 0)

\* line k has its status and its transcription or error event
Finished(k) ==
    /\ Len(EventsFor(k)) = 2
    /\ EventsFor(k)[1] = Msg("status", "transcribing", k)
    /\ EventsFor(k)[2].type \in {"transcription", "error"}

\* C11: commands are handled one at a time: the log holds the events of
\* line k before those of line k+1, a line is read only when no
\* transcription is running, and a QUIT takes effect only from readline(),
\* after the operation before it has completed or failed.
C11_OneCommandAtATime ==
    /\ [](\A i, j \in 1..Len(LineEvents) :
             i < j => LineEvents[i].line <= LineEvents[j].line)
    /\ [][ pos' # pos =>
             /\ pos' = pos + 1
             /\ pc = "loop"
             /\ \A k \in calls : Finished(k) ]_vars
    /\ [][ (stopReason = "none" /\ stopReason' = "quit") =>
             /\ pc = "loop"
             /\ \A k \in calls : Finished(k) ]_vars

\* a QUIT sent behind a transcription took effect after its result was printed
C11_Witness ==
    /\ stopReason = "quit"
    /\ pos >= 2
    /\ (pos - 1) \in calls
    /\ Finished(pos - 1)

\* C12: a CHECK_MODEL line yields exactly one model_status event and no
\* status event and no error event.
C12_CheckModelReportsStatus ==
    \A k \in 1..pos :
        (IsCheckCmd(strip(input[k])) /\ Handled(k)) =>
            /\ Count(EventsFor(k), "model_status") = 1
            /\ Count(EventsFor(k), "status") = 0
            /\ Count(EventsFor(k), "error") = 0

\* a line made of whitespace only
IsBlankLine(l) == \A i \in 1..Len(l) : l[i] \in Whitespace

\* C13: reading a blank line prints nothing, changes neither the model nor
\* the running state, and leaves the loop at readline() for the next line.
C13_BlankLineIgnored ==
    [][ ( /\ pc = "loop"
          /\ pos < Len(input)
          /\ pos' = pos + 1
          /\ IsBlankLine(input[pos + 1]) ) =>
          /\ events' = events
          /\ model' = model
          /\ loaded' = loaded
          /\ calls' = calls
          /\ pc' = "loop"
          /\ stopReason' = stopReason
          /\ exitCode' = exitCode ]_vars

\* a line of spaces was skipped and the line after it was handled
C13_Witness ==
    \E k \in 1..(pos - 1) :
        /\ input[k] = LineSpaces
        /\ EventsFor(k) = <<>>
        /\ Finished(k + 1)

\* the position of the first event of the log that satisfies P, 0 if none
FirstIndex(P(_)) ==
    IF \E i \in 1..Len(events) : P(events[i])
    THEN CHOOSE i \in 1..Len(events) :
            P(events[i]) /\ \A j \in 1..(i - 1) : ~P(events[j])
    ELSE 0

IsReady(e) == e.type = "ready"

IsTranscribing(e) == e.type = "status" /\ e.state = "transcribing"

\* C14: model.transcribe is invoked, and a transcribing status or a
\* transcription is printed, only while a model is Ready, the load comes
\* before the first transcription, and when the load fails an error event
\* is printed and no transcription is attempted.
C14_TranscribeOnlyWhenReady ==
    /\ (calls # {} \/ HasStatus("transcribing") \/ HasEvent("transcription")) =>
          /\ lifecycleStatus = "Ready"
          /\ model # None
          /\ FirstIndex(IsReady) < FirstIndex(IsTranscribing)
    /\ lifecycleStatus = "Failed" =>
          /\ HasEvent("error")
          /\ calls = {}
          /\ ~HasStatus("transcribing")
          /\ ~HasEvent("transcription")

\* line k is non-empty and is neither the quit sentinel nor a prefixed command
PlainPath(k) ==
    LET p == strip(input[k])
    IN  p # <<>> /\ ~IsQuitAnyCase(p) /\ ~IsLoadCmd(p) /\ ~IsCheckCmd(p)

\* C15 as stated: every plain path that was read is handed to
\* model.transcribe and, once the loop is done with it, has its transcribing
\* status followed by exactly one transcription or error event.
C15_OneTerminalEventPerPath ==
    \A k \in 1..pos :
        PlainPath(k) =>
            /\ k \in calls
            /\ Handled(k) => Finished(k)

\* C15 as amended: the same, except that a line whose transcription is cut
\* short by a KeyboardInterrupt keeps its transcribing status alone.
C15_OneTerminalEventUnlessInterrupted ==
    \A k \in 1..pos :
        PlainPath(k) =>
            /\ k \in calls
            /\ EventsFor(k) # <<>>
            /\ EventsFor(k)[1] = Msg("status", "transcribing", k)
            /\ Handled(k) =>
                  \/ Finished(k)
                  \/ /\ stopReason = "interrupt"
                     /\ k = pos
                     /\ Len(EventsFor(k)) = 1
            /\ ~Handled(k) => Len(EventsFor(k)) = 1

\* one path was transcribed to its end and the next one was interrupted
C15_Witness ==
    /\ pos = 2
    /\ PlainPath(1)
    /\ PlainPath(2)
    /\ Finished(1)
    /\ stopReason = "interrupt"
    /\ Len(EventsFor(2)) = 1
    /\ pc = "exited"

\* main() is past the cache probe of line 70
Probed == pc # "start" /\ exitCode # "1"

\* a download was started
DownloadAttempted == HasEvent("download_start")

\* C16: the downloading status and the download attempt occur exactly when
\* the probe reported the model not cached, a cached model goes to the
\* loading phase with no download, and the ready event carries the
\* identifier of the loaded model.
C16_ProbeDrivesPhaseAndReadyNamesModel ==
    /\ Probed => (HasStatus("downloading") <=> ~model_exists)
    /\ Probed => (HasStatus("cached") <=> model_exists)
    /\ DownloadAttempted => ~model_exists
    /\ (Probed /\ ~model_exists /\ pc # "download") => DownloadAttempted
    /\ \A i \in 1..Len(events) :
          events[i].type = "ready" =>
              (loaded # <<>> /\ events[i].model = loaded[Len(loaded)])

\* C17: after the artifacts of one identifier were stored under its cache
\* key, the probe for a different identifier does not find them: the keys
\* of distinct identifiers are distinct.
C17_DistinctIdentifiersDistinctKeys ==
    ident[1] # ident[2] =>
        /\ disk # {} => cache_key(ident[2]) \notin disk
        /\ ~model_exists

IsStatus(e, state) == e.type = "status" /\ e.state = state

CountStatus(state) == Len(SelectSeq(events, LAMBDA e : IsStatus(e, state)))

\* an event that only the start-up code prints
IsStartupEvent(e) ==
    \/ e.type \in {"download_start", "download_complete", "download_error",
                   "ready", "fatal"}
    \/ /\ e.type = "status"
       /\ e.state \in {"initializing", "cached", "downloading", "loading"}

\* start-up is over: main() is in its loop or has returned
StartupOver ==
    \/ pc \in {"loop", "transcribing", "except", "shutdown"}
    \/ pc = "exited" /\ exitCode = "0"

\* C18: initializing is the first event; then exactly one of cached and
\* downloading; a loading status comes only after cached or after a
\* completed download, never after a download error; start-up ends with
\* exactly one of ready and fatal; ready is printed at most once and only
\* after a loading status.
C18_StartupOrder ==
    /\ events # <<>> => IsStatus(events[1], "initializing")
    /\ CountStatus("initializing") <= 1
    /\ Len(events) >= 2 =>
          (IsStatus(events[2], "cached") \/ IsStatus(events[2], "downloading"))
    /\ CountStatus("cached") + CountStatus("downloading") <= 1
    /\ \A i \in 1..Len(events) :
          IsStatus(events[i], "loading") =>
              /\ \E j \in 1..(i - 1) :
                    \/ IsStatus(events[j], "cached")
                    \/ events[j].type = "download_complete"
              /\ \A j \in 1..(i - 1) : events[j].type # "download_error"
    /\ Count(events, "ready") + Count(events, "fatal") <= 1
    /\ StartupOver => Count(events, "ready") + Count(events, "fatal") = 1
    /\ ~StartupOver => Count(events, "ready") + Count(events, "fatal") = 0
    /\ \A i \in 1..Len(events) :
          events[i].type = "ready" =>
              \E j \in 1..(i - 1) : IsStatus(events[j], "loading")
    /\ \A i, j \in 1..Len(events) :
          (i < j /\ events[i].type \in {"ready", "fatal"}) =>
              ~IsStartupEvent(events[j])

\* a start-up that downloaded the model, loaded it and reached the loop
C18_Witness ==
    /\ pc = "loop"
    /\ HasStatus("downloading")
    /\ HasEvent("download_complete")
    /\ HasStatus("loading")
    /\ HasEvent("ready")

\* C19: the shutdown status is printed once, as the last event, on every
\* way out of the command loop, and never in a run with a fatal event.
\* (A log that is full no longer shows what is printed.)
C19_ShutdownOnceAndLast ==
    /\ CountStatus("shutdown") <= 1
    /\ HasStatus("shutdown") =>
          /\ IsStatus(events[Len(events)], "shutdown")
          /\ pc = "exited"
          /\ stopReason \in {"quit", "eof", "interrupt"}
    /\ stopReason # "none" => pc \in {"shutdown", "exited"}
    /\ (pc = "exited" /\ stopReason # "none" /\ Len(events) < MaxLog) =>
          /\ CountStatus("shutdown") = 1
          /\ exitCode = "0"
    /\ HasEvent("fatal") => (~HasStatus("shutdown") /\ stopReason = "none")

\* the loop was left by a KeyboardInterrupt during a transcription and the
\* run ended with the shutdown status
C19_Witness ==
    /\ pc = "exited"
    /\ stopReason = "interrupt"
    /\ calls # {}
    /\ events # <<>>
    /\ IsStatus(events[Len(events)], "shutdown")

====
